---- MODULE Spec2Model ----
(***************************************************************************)
(* Branch-and-bound TSP solver (src/src/bb_tsp.py) and the nearest-        *)
(* neighbour heuristic (src/src/heuristics.py).                            *)
(*                                                                         *)
(* Number representation.  The code computes in floats; on integer         *)
(* matrices every value it produces is a multiple of 0.5 (the only         *)
(* division is "s / 2.0").  A float is therefore represented by the        *)
(* integer count of halves it holds: Float(x) = 2*x.  float('inf') is the  *)
(* sentinel Inf, with saturating addition and halving.                     *)
(*                                                                         *)
(* Cities are 0..n-1 as in the code; a matrix is a tuple of rows, so the   *)
(* entry dist_matrix[i][j] is dist[i+1][j+1].                              *)
(***************************************************************************)
EXTENDS Integers, Sequences, FiniteSets, TLC

\* ---- bounds of the model ------------------------------------------------
MaxDist == 2       \* generic 1x1..3x3 matrices take entries in 0..MaxDist
MaxClock == 1      \* the clock reads a value in 0..MaxClock

\* float('inf'), in halves
Inf == 1000000

VARIABLES
    dist,            \* input: the distance matrix
    time_limit,      \* input: the time limit
    pc,              \* "entry", "loop", "done" (returned) or "IndexError"
    now,             \* the last value read from time.time()
    start_time,      \* bb_tsp.py:40
    heap,            \* the frontier: set of (bound, cost, path, unvisited)
    popped,          \* the locals bound, cost_so_far, path, unvisited of the loop
    generated,       \* the nodes constructed by the last step
    depths,          \* history: the path lengths of the nodes popped so far
    best_cost, best_tour, nodes_expanded, max_depth, time_seconds   \* BBResult

vars == <<dist, time_limit, pc, now, start_time, heap, popped, generated, depths,
          best_cost, best_tour, nodes_expanded, max_depth, time_seconds>>

\* ---- floats ---------------------------------------------------------------
Float(x) == IF x = Inf THEN Inf ELSE 2 * x
Plus(a, b) == IF a = Inf \/ b = Inf THEN Inf ELSE a + b
Half(s) == IF s = Inf THEN Inf ELSE s \div 2

\* best_tour = None
None == <<>>
NoNode == [bound |-> 0, cost |-> 0, path |-> <<>>, unvisited |-> <<>>]

\* ---- the matrix ----------------------------------------------------------
Shape0(d) == Len(d)
Entry(d, i, j) == Float(d[i + 1][j + 1])

Last(path) == path[Len(path)]
Range(s) == {s[k] : k \in 1..Len(s)}

Min(S) == CHOOSE x \in S : \A y \in S : x <= y
Max2Latest(a, b) == b
Max2(a, b) == IF a >= b THEN a ELSE b

RECURSIVE SumSeq(_)
SumSeq(s) == IF s = <<>> THEN 0 ELSE Plus(s[1], SumSeq(Tail(s)))

\* ---- lower_bound_two_min_edges -------------------------------------------
TwoMinsSmallestTwice(d, i) ==
    LET m0 == Min({Entry(d, i, j) : j \in (0..(Shape0(d) - 1)) \ {i}})
    IN  <<m0, m0>>

\* line 31: sorted([row[j] for j in range(n) if j != i]), as the pair of its
\* two smallest elements mins[0], mins[1]
TwoMins(d, i) ==
    LET n == Shape0(d)
        others == (0..(n - 1)) \ {i}
        j0 == CHOOSE j \in others : \A k \in others : Entry(d, i, j) <= Entry(d, i, k)
        rest == others \ {j0}
        j1 == CHOOSE j \in rest : \A k \in rest : Entry(d, i, j) <= Entry(d, i, k)
    IN  <<Entry(d, i, j0), Entry(d, i, j1)>>

LowerBoundRaisesAtThree(d, unvisited) == unvisited # <<>> /\ Shape0(d) - 1 < 3

\* line 33 raises IndexError when the row has fewer than two other entries
LowerBoundRaises(d, unvisited) == unvisited # <<>> /\ Shape0(d) - 1 < 2

MinFromLastNoClosing(d, path, unvisited, start) ==
    IF unvisited # <<>>
    THEN Min({Entry(d, Last(path), j) : j \in Range(unvisited)})
    ELSE 0

\* lines 20-25
MinFromLast(d, path, unvisited, start) ==
    IF unvisited # <<>>
    THEN Min({Entry(d, Last(path), j) : j \in Range(unvisited)})
    ELSE Entry(d, Last(path), start)

\* lines 27-33
SumTwoMins(d, unvisited) ==
    SumSeq([k \in 1..Len(unvisited) |->
              Plus(TwoMins(d, unvisited[k])[1], TwoMins(d, unvisited[k])[2])])

lower_bound_two_min_edges(d, path, cost_so_far, unvisited, start) ==
    Plus(Plus(cost_so_far, MinFromLast(d, path, unvisited, start)),
         Half(SumTwoMins(d, unvisited)))

\* ---- the heap ------------------------------------------------------------
RECURSIVE LexLessDescending(_, _)
LexLessDescending(p, q) ==
    IF p = <<>> THEN q # <<>>
    ELSE IF q = <<>> THEN FALSE
    ELSE IF p[1] # q[1] THEN p[1] > q[1]
    ELSE LexLessDescending(Tail(p), Tail(q))

\* Python's comparison of two lists / tuples of numbers
RECURSIVE LexLess(_, _)
LexLess(p, q) ==
    IF p = <<>> THEN q # <<>>
    ELSE IF q = <<>> THEN FALSE
    ELSE IF p[1] # q[1] THEN p[1] < q[1]
    ELSE LexLess(Tail(p), Tail(q))

NodeLessNoCost(a, b) ==
    \/ a.bound < b.bound
    \/ a.bound = b.bound /\ LexLess(a.path, b.path)

NodeLessReversed(a, b) ==
    \/ a.bound > b.bound
    \/ a.bound = b.bound /\ a.cost > b.cost
    \/ a.bound = b.bound /\ a.cost = b.cost /\ LexLess(b.path, a.path)

\* comparison of the heap's tuples (bound, cost, path, unvisited)
NodeLess(a, b) ==
    \/ a.bound < b.bound
    \/ a.bound = b.bound /\ a.cost < b.cost
    \/ a.bound = b.bound /\ a.cost = b.cost /\ LexLess(a.path, b.path)
    \/ a.bound = b.bound /\ a.cost = b.cost /\ a.path = b.path
         /\ LexLess(a.unvisited, b.unvisited)

\* heapq.heappop: the least tuple of the heap
HeapTop(h) == CHOOSE x \in h : \A y \in h \ {x} : NodeLess(x, y)

\* ---- the steps of branch_and_bound_tsp -----------------------------------
\* line 49
UnvisitedInit(n) == [k \in 1..(n - 1) |-> k]

\* lines 47-50
InitNode(d) ==
    [bound |-> lower_bound_two_min_edges(d, <<0>>, 0, UnvisitedInit(Shape0(d)), 0),
     cost |-> 0, path |-> <<0>>, unvisited |-> UnvisitedInit(Shape0(d))]

PopIdxFirst(unvisited, idx) == Tail(unvisited)

\* lines 73-75: the tuple without its element at position idx
PopIdx(unvisited, idx) ==
    [k \in 1..(Len(unvisited) - 1) |-> IF k < idx THEN unvisited[k] ELSE unvisited[k + 1]]

ChildNoEdge(d, node, idx) ==
    LET v == node.unvisited[idx]
        new_path == Append(node.path, v)
        new_unvisited == PopIdx(node.unvisited, idx)
    IN  [bound |-> lower_bound_two_min_edges(d, new_path, node.cost, new_unvisited, 0),
         cost |-> node.cost, path |-> new_path, unvisited |-> new_unvisited]

\* lines 71-76: the child built for the idx-th unvisited city
Child(d, node, idx) ==
    LET v == node.unvisited[idx]
        new_path == Append(node.path, v)
        new_cost == Plus(node.cost, Entry(d, Last(node.path), v))
        new_unvisited == PopIdx(node.unvisited, idx)
    IN  [bound |-> lower_bound_two_min_edges(d, new_path, new_cost, new_unvisited, 0),
         cost |-> new_cost, path |-> new_path, unvisited |-> new_unvisited]

Children(d, node) == {Child(d, node, idx) : idx \in 1..Len(node.unvisited)}

PrunedNever(bound, best) == FALSE

PrunedStrictly(bound, best) == bound > best

\* line 60
Pruned(bound, best) == bound >= best

PushedAtEqual(new_bound, best) == new_bound <= best

\* line 78
Pushed(new_bound, best) == new_bound < best

TotalCostFromStart(d, node) == Plus(node.cost, Entry(d, node.path[1], Last(node.path)))

TotalCostNoReturn(d, node) == node.cost

\* line 64
TotalCost(d, node) == Plus(node.cost, Entry(d, Last(node.path), node.path[1]))

ImprovesReversed(total_cost, best) == total_cost > best

\* line 65
Improves(total_cost, best) == total_cost < best

ClosedTourUnset(path) == None

ClosedTourOpen(path) == path

\* line 67
ClosedTour(path) == Append(path, path[1])

TimeExceededLate(t) == t - start_time > time_limit + 1

\* line 54: the test on the clock reading t
TimeExceeded(t) == t - start_time > time_limit

\* a reading of time.time(): the clock does not run backwards
Readings == now..MaxClock

\* ---- nearest_neighbor (src/src/heuristics.py) ----------------------------
RECURSIVE ScanKeepsLast(_, _, _, _, _, _)
ScanKeepsLast(d, current, visited, j, best, next_idx) ==
    IF j >= Shape0(d) THEN <<best, next_idx>>
    ELSE IF j \notin visited /\ Entry(d, current, j) <= best
         THEN ScanKeepsLast(d, current, visited, j + 1, Entry(d, current, j), j)
         ELSE ScanKeepsLast(d, current, visited, j + 1, best, next_idx)

\* lines 15-19: the scan over j = j..n-1, carrying best and next_idx
\* (next_idx = -1 stands for None)
RECURSIVE Scan(_, _, _, _, _, _)
Scan(d, current, visited, j, best, next_idx) ==
    IF j >= Shape0(d) THEN <<best, next_idx>>
    ELSE IF j \notin visited /\ Entry(d, current, j) < best
         THEN Scan(d, current, visited, j + 1, Entry(d, current, j), j)
         ELSE Scan(d, current, visited, j + 1, best, next_idx)

NNCloseNoCost(d, start, tour, current, cost) ==
    [tour |-> Append(tour, start), cost |-> cost]

\* lines 26-29
NNClose(d, start, tour, current, cost) ==
    [tour |-> Append(tour, start), cost |-> Plus(cost, Entry(d, current, start))]

\* lines 11-25: the remaining k iterations of the outer loop
RECURSIVE NNLoop(_, _, _, _, _, _, _)
NNLoop(d, start, tour, visited, current, cost, k) ==
    IF k = 0 THEN NNClose(d, start, tour, current, cost)
    ELSE LET r == Scan(d, current, visited, 0, Inf, -1)
         IN  IF r[2] = -1 THEN NNClose(d, start, tour, current, cost)
             ELSE NNLoop(d, start, Append(tour, r[2]), visited \cup {r[2]}, r[2],
                         Plus(cost, r[1]), k - 1)

nearest_neighbor(d, start) ==
    NNLoop(d, start, <<start>>, {start}, start, 0, Shape0(d) - 1)

\* ---- inputs --------------------------------------------------------------
OffDiag(n) == {p \in (1..n) \X (1..n) : p[1] # p[2]}

\* every n x n matrix with zero diagonal and entries in 0..m
Matrices(n, m) ==
    {[i \in 1..n |-> [j \in 1..n |-> IF i = j THEN 0 ELSE f[<<i, j>>]]] :
        f \in [OffDiag(n) -> 0..m]}

Upper(n) == {p \in (1..n) \X (1..n) : p[1] < p[2]}

\* every symmetric n x n matrix with zero diagonal and entries in the set V
SymMatrices(n, V) ==
    {[i \in 1..n |-> [j \in 1..n |->
         IF i = j THEN 0 ELSE IF i < j THEN f[<<i, j>>] ELSE f[<<j, i>>]]] :
        f \in [Upper(n) -> V]}

\* the instances of tests/test_bb.py
Triangle == <<<<0, 10, 15>>, <<10, 0, 20>>, <<15, 20, 0>>>>
Uniform4 == <<<<0, 10, 10, 10>>, <<10, 0, 10, 10>>, <<10, 10, 0, 10>>, <<10, 10, 10, 0>>>>
Small4 == <<<<0, 10, 15, 20>>, <<10, 0, 35, 25>>, <<15, 35, 0, 30>>, <<20, 25, 30, 0>>>>
TwoCities == <<<<0, 10>>, <<10, 0>>>>
Literals == {Triangle, Uniform4, Small4, TwoCities}

\* inputs the specification calls malformed: a negative entry, a non-zero
\* diagonal, a 3 x 4 matrix
NegativeEntry == <<<<0, 1, 2>>, <<1, 0, -1>>, <<2, 1, 0>>>>
NonZeroDiagonal == <<<<0, 1, 2>>, <<1, 1, 1>>, <<2, 1, 0>>>>
NonSquare == <<<<0, 1, 2, 1>>, <<1, 0, 1, 2>>, <<2, 1, 0, 1>>>>
MalformedMatrices == {NegativeEntry, NonZeroDiagonal, NonSquare}

\* 3 x 3 matrices in which a distance can be unknown (+inf)
InfMatrices ==
    {[i \in 1..3 |-> [j \in 1..3 |-> IF i = j THEN 0 ELSE f[<<i, j>>]]] :
        f \in [OffDiag(3) -> {0, 1, Inf}]}

Sizes == {1, 2, 3}
LegalInputs ==
    UNION {Matrices(n, MaxDist) : n \in Sizes} \cup Literals \cup InfMatrices
TimeLimits == {-1, 0, MaxClock}

\* ---- the state machine ---------------------------------------------------
InitWith(inputs) ==
    /\ dist \in inputs
    /\ time_limit \in TimeLimits
    /\ pc = "entry"
    /\ now = 0
    /\ start_time = 0
    /\ heap = {}
    /\ popped = NoNode
    /\ generated = {}
    /\ depths = {}
    /\ best_cost = Inf
    /\ best_tour = None
    /\ nodes_expanded = 0
    /\ max_depth = 0
    /\ time_seconds = 0

Init == InitWith(LegalInputs \cup MalformedMatrices)

\* the entries of the symmetric 4 x 4 inputs
Values4 == {0, 2, 3, 5}

Init4 == InitWith(SymMatrices(4, Values4))

\* lines 40-51
Start ==
    /\ pc = "entry"
    /\ \E t \in Readings : now' = t /\ start_time' = t
    /\ IF LowerBoundRaises(dist, UnvisitedInit(Shape0(dist)))
       THEN /\ pc' = "IndexError"
            /\ UNCHANGED <<heap, generated>>
       ELSE /\ pc' = "loop"
            /\ heap' = {InitNode(dist)}
            /\ generated' = {InitNode(dist)}
    /\ UNCHANGED <<dist, time_limit, popped, depths, best_cost, best_tour,
                   nodes_expanded, max_depth, time_seconds>>

\* lines 80-81, after the reading t of the loop's test
Return(t) ==
    /\ \E t2 \in t..MaxClock : now' = t2 /\ time_seconds' = t2 - start_time
    /\ pc' = "done"
    /\ generated' = {}
    /\ UNCHANGED <<dist, time_limit, start_time, heap, popped, depths, best_cost,
                   best_tour, nodes_expanded, max_depth>>

\* line 53 with an empty heap
FrontierExhausted ==
    /\ pc = "loop"
    /\ heap = {}
    /\ Return(now)

\* lines 54-55
TimeLimitReached ==
    /\ pc = "loop"
    /\ heap # {}
    /\ \E t \in Readings : TimeExceeded(t) /\ Return(t)

\* lines 56-58, common to the three kinds of iteration
Pop(node) ==
    /\ pc = "loop"
    /\ heap # {}
    /\ node = HeapTop(heap)
    /\ \E t \in Readings : ~TimeExceeded(t) /\ now' = t
    /\ popped' = node
    /\ depths' = depths \cup {Len(node.path)}
    /\ nodes_expanded' = nodes_expanded + 1
    /\ max_depth' = Max2(max_depth, Len(node.path))
    /\ UNCHANGED <<dist, time_limit, start_time, time_seconds>>

\* lines 60-61
Prune ==
    \E node \in {x \in heap : \A y \in heap \ {x} : NodeLess(x, y)} :
        /\ Pop(node)
        /\ Pruned(node.bound, best_cost)
        /\ heap' = heap \ {node}
        /\ generated' = {}
        /\ UNCHANGED <<pc, best_cost, best_tour>>

\* lines 62-68
CloseTour ==
    \E node \in {x \in heap : \A y \in heap \ {x} : NodeLess(x, y)} :
        /\ Pop(node)
        /\ ~Pruned(node.bound, best_cost)
        /\ node.unvisited = <<>>
        /\ heap' = heap \ {node}
        /\ generated' = {}
        /\ IF Improves(TotalCost(dist, node), best_cost)
           THEN /\ best_cost' = TotalCost(dist, node)
                /\ best_tour' = ClosedTour(node.path)
           ELSE UNCHANGED <<best_cost, best_tour>>
        /\ UNCHANGED pc

\* lines 70-79
Branch ==
    \E node \in {x \in heap : \A y \in heap \ {x} : NodeLess(x, y)} :
        /\ Pop(node)
        /\ ~Pruned(node.bound, best_cost)
        /\ node.unvisited # <<>>
        /\ IF \E idx \in 1..Len(node.unvisited) :
                 LowerBoundRaises(dist, PopIdx(node.unvisited, idx))
           THEN /\ pc' = "IndexError"
                /\ heap' = heap \ {node}
                /\ generated' = {}
           ELSE /\ pc' = pc
                /\ generated' = Children(dist, node)
                /\ heap' = (heap \ {node}) \cup
                       {c \in Children(dist, node) : Pushed(c.bound, best_cost)}
        /\ UNCHANGED <<best_cost, best_tour>>

Next == Start \/ FrontierExhausted \/ TimeLimitReached \/ Prune \/ CloseTour \/ Branch

Spec == Init /\ [][Next]_vars

Spec4 == Init4 /\ [][Next]_vars

\* the inputs of the runs followed to their end: the symmetric 3 x 3 matrices
\* over {0, 1}, an asymmetric one, one with unknown distances, and the 3-city
\* and 4-city instances of tests/test_bb.py
Asymmetric3 == <<<<0, 0, 2>>, <<0, 0, 2>>, <<1, 0, 0>>>>
Unknown3 == <<<<0, 1, Inf>>, <<1, 0, 1>>, <<Inf, 1, 0>>>>
FairInputs == SymMatrices(3, {0, 1}) \cup {Asymmetric3, Unknown3, Triangle, Small4}

InitFair == InitWith(FairInputs)

\* the call keeps executing until it returns or raises: some step is taken
\* whenever one is possible
FairSpec == InitFair /\ [][Next]_vars /\ WF_vars(Next)

\* ---- reference definitions for the properties ---------------------------
\* every ordering of the elements of the set S
RECURSIVE Perms(_)
Perms(S) ==
    IF S = {} THEN {<<>>}
    ELSE UNION {{<<x>> \o p : p \in Perms(S \ {x})} : x \in S}

\* the sum of dist[p[i]][p[i+1]] over the consecutive positions of p
RECURSIVE PathCost(_, _)
PathCost(d, p) ==
    IF Len(p) < 2 THEN 0
    ELSE Plus(Entry(d, p[1], p[2]), PathCost(d, Tail(p)))

\* the least cost of a closed tour that extends the path and returns to 0
MinCompletion(d, path) ==
    Min({PathCost(d, path \o q \o <<0>>) :
           q \in Perms((0..(Shape0(d) - 1)) \ Range(path))})

\* the least cost of a closed tour from city 0 through every city
OptCost(d) == MinCompletion(d, <<0>>)

\* a legal distance matrix: square, zero diagonal, no negative entry
Legal(d) ==
    /\ \A i \in 1..Len(d) : Len(d[i]) = Len(d)
    /\ \A i \in 1..Len(d) : d[i][i] = 0
    /\ \A i \in 1..Len(d) : \A j \in 1..Len(d[i]) : d[i][j] >= 0

\* the run returned because the frontier was empty
Exhausted == pc = "done" /\ heap = {}
Malformed == ~Legal(dist) \/ time_limit < 0

\* C1: a run on a legal matrix that ends with an empty frontier returns the
\* cost of the cheapest closed tour from city 0 through every city.
C1_Optimal == (Exhausted /\ Legal(dist)) => best_cost = OptCost(dist)

\* C2: the bound of every node the solver constructs (the initial node and
\* every child, pushed or not) is at most the cost of the cheapest closed
\* tour extending the node's path.
C2_Admissible ==
    Legal(dist) => \A node \in generated : node.bound <= MinCompletion(dist, node.path)

\* C3: a present best_tour has length n+1, starts and ends at city 0, and
\* its first n elements are the cities 0..n-1, each once.
C3_TourValid ==
    best_tour # None =>
        /\ Len(best_tour) = Shape0(dist) + 1
        /\ best_tour[1] = 0
        /\ best_tour[Len(best_tour)] = 0
        /\ {best_tour[k] : k \in 1..Shape0(dist)} = 0..(Shape0(dist) - 1)

C3_Witness ==
    pc = "done" /\ best_tour # None /\ Shape0(dist) = 4 /\ nodes_expanded > 4

\* C4: whenever the solver returns a tour on a legal matrix, the cost of the
\* nearest-neighbour tour from city 0 is at least best_cost.
C4_Dominance ==
    (pc = "done" /\ best_tour # None /\ Legal(dist)) =>
        nearest_neighbor(dist, 0).cost >= best_cost

\* C5: on malformed input the call ends in ValidationError before the first
\* frontier node or the result exists: nothing is pushed, popped or recorded.
C5_Rejected ==
    Malformed =>
        /\ pc \in {"entry", "ValidationError"}
        /\ heap = {}
        /\ nodes_expanded = 0
        /\ best_tour = None

\* C6: on a legal 2-city matrix a run whose time limit is not reached ends
\* by returning best_cost = dist[0][1] + dist[1][0] and best_tour = [0,1,0].
C6_TwoCities ==
    (Shape0(dist) = 2 /\ Legal(dist) /\ time_limit = MaxClock /\ pc \notin {"entry", "loop"}) =>
        /\ pc = "done"
        /\ best_cost = Float(dist[1][2] + dist[2][1])
        /\ best_tour = <<0, 1, 0>>

\* C7: with time limit 0 the run returns with nodes_expanded >= 1, whatever
\* the clock reads.
C7_AtLeastOne == (pc = "done" /\ time_limit = 0) => nodes_expanded >= 1

\* C8: the bound of every child built by extending the popped node's path by
\* one unvisited city is at least the bound of the popped node.
C8_Monotone ==
    Legal(dist) =>
        \A c \in generated :
            Len(c.path) = Len(popped.path) + 1 => c.bound >= popped.bound

\* C9: for a complete path (no unvisited city) the bound is exactly the
\* accumulated cost plus the edge from the last city back to the start, which
\* is the cost of the closed tour.
C9_ExactAtLeaf ==
    \A node \in generated \cup heap :
        node.unvisited = <<>> =>
            /\ node.bound = Plus(node.cost, Entry(dist, Last(node.path), 0))
            /\ node.bound = PathCost(dist, Append(node.path, 0))

C9_Witness ==
    \E node \in generated :
        node.unvisited = <<>> /\ Len(node.path) = 3 /\ node.bound > node.cost

\* C10: run to frontier exhaustion, the solver returns 45 on the 3-city
\* instance, 40 on the uniform 4-city instance, and on the 4-city instance the
\* optimal cost 80 with a tour of length 5 from 0 to 0 and nodes_expanded > 0.
C10_Literals ==
    Exhausted =>
        /\ dist = Triangle => best_cost = Float(45)
        /\ dist = Uniform4 => best_cost = Float(40)
        /\ dist = Small4 =>
              /\ best_cost = Float(80)
              /\ best_cost = OptCost(Small4)
              /\ Len(best_tour) = 5
              /\ best_tour[1] = 0 /\ best_tour[5] = 0
              /\ nodes_expanded > 0

C10_Witness == Exhausted /\ dist = Small4 /\ best_tour # None

\* ---- a run as a function of the matrix and the number of pops ------------
\* the composite key of the frontier: bound, then accumulated cost, then the
\* visited-city sequence in lexicographic order
PathLexLess(p, q) ==
    \E k \in 1..(Len(q)) :
        /\ \A i \in 1..(k - 1) : i <= Len(p) /\ p[i] = q[i]
        /\ \/ k = Len(p) + 1
           \/ k <= Len(p) /\ p[k] < q[k]

KeyLess(a, b) ==
    \/ a.bound < b.bound
    \/ a.bound = b.bound /\ a.cost < b.cost
    \/ a.bound = b.bound /\ a.cost = b.cost /\ PathLexLess(a.path, b.path)

KeyLeast(h) == CHOOSE x \in h : \A y \in h \ {x} : KeyLess(x, y)

\* one iteration of the loop on the search state s = [heap, best_cost, best_tour]
RefStep(d, s) ==
    LET node == KeyLeast(s.heap)
        rest == s.heap \ {node}
    IN  IF Pruned(node.bound, s.best_cost) THEN [s EXCEPT !.heap = rest]
        ELSE IF node.unvisited = <<>>
        THEN IF Improves(TotalCost(d, node), s.best_cost)
             THEN [heap |-> rest, best_cost |-> TotalCost(d, node),
                   best_tour |-> ClosedTour(node.path)]
             ELSE [s EXCEPT !.heap = rest]
        ELSE [s EXCEPT !.heap = rest \cup
                 {c \in Children(d, node) : Pushed(c.bound, s.best_cost)}]

\* the search state after k iterations, or at exhaustion if that comes first
RECURSIVE RefRun(_, _, _)
RefRun(d, s, k) ==
    IF k = 0 \/ s.heap = {} THEN s ELSE RefRun(d, RefStep(d, s), k - 1)

RefResult(d, k) ==
    LET s == RefRun(d, [heap |-> {InitNode(d)}, best_cost |-> Inf, best_tour |-> None], k)
    IN  <<s.best_cost, s.best_tour>>

\* the number of duplicate-free paths that extend a path with m cities left
RECURSIVE NumPaths(_)
NumPaths(m) == IF m = 0 THEN 1 ELSE 1 + m * NumPaths(m - 1)

\* the numbers of iterations after which another run with the same time
\* limit can stop: at once for a negative limit, only at exhaustion for a
\* limit the clock never exceeds, after any iteration otherwise
OtherRunStops(d, limit) ==
    IF limit < 0 THEN {0}
    ELSE IF limit >= MaxClock THEN {NumPaths(Shape0(d) - 1)}
    ELSE 0..NumPaths(Shape0(d) - 1)

HasInf(d) == \E i \in 1..Len(d) : \E j \in 1..Len(d[i]) : d[i][j] = Inf

Starts(d) == 0..(Shape0(d) - 1)

\* C11: on the 1-city matrix [[0]] a run whose time limit is not reached
\* returns best_cost = 0 and best_tour = [0,0] after exactly one pop.
C11_OneCity ==
    (Exhausted /\ Shape0(dist) = 1 /\ Legal(dist)) =>
        best_cost = 0 /\ best_tour = <<0, 0>> /\ nodes_expanded = 1

C11_Witness == Exhausted /\ dist = <<<<0>>>> /\ best_tour = <<0, 0>>

\* C12: on a matrix with n >= 3 whose entries are non-negative or +inf, costs
\* and bounds follow extended-real arithmetic (a node's cost is the extended
\* sum of its path's edges, an infinite cost gives an infinite bound, nothing
\* exceeds +inf), the run never ends in an error, a non-empty frontier always
\* has a least node to pop, and the run returns a finite cost with a tour or
\* +inf with none.
C12_InfiniteEntries ==
    (Legal(dist) /\ Shape0(dist) >= 3) =>
        /\ pc \in {"entry", "loop", "done"}
        /\ (pc = "loop" /\ heap # {}) =>
              \E x \in heap : \A y \in heap \ {x} : NodeLess(x, y)
        /\ \A node \in generated \cup heap :
              /\ node.cost = PathCost(dist, node.path)
              /\ node.cost <= node.bound /\ node.bound <= Inf
              /\ node.cost = Inf => node.bound = Inf
        /\ pc = "done" =>
              \/ best_cost < Inf /\ best_tour # None
              \/ best_cost = Inf /\ best_tour = None

C12_Witness ==
    /\ pc = "done" /\ HasInf(dist) /\ best_cost = Inf /\ best_tour = None
    /\ heap = {} /\ nodes_expanded = 1 /\ popped.bound = Inf /\ popped.cost = 0

\* C13: best_tour is absent exactly when best_cost is +inf.
C13_AbsentIffInf == (best_tour = None) <=> (best_cost = Inf)

C13_Witness == pc = "done" /\ heap # {} /\ best_tour # None /\ best_cost < Inf

\* C14: max_depth is the largest path length among the nodes popped so far,
\* 0 before the first pop, hence between 0 and n.
C14_MaxDepth ==
    /\ max_depth = (IF depths = {} THEN 0 ELSE CHOOSE m \in depths : \A k \in depths : k <= m)
    /\ nodes_expanded = 0 => max_depth = 0
    /\ 0 <= max_depth /\ max_depth <= Shape0(dist)

C14_Witness ==
    pc = "loop" /\ max_depth = 3 /\ Len(popped.path) = 2 /\ Shape0(dist) = 3

\* C15: on every matrix the specification allows (+inf entries included) and
\* for every start city, nearest_neighbor returns a tour of length n+1 that
\* begins and ends at the start and whose first n elements are all the cities.
C15_NNTourValid ==
    Legal(dist) =>
        \A st \in Starts(dist) :
            LET tour == nearest_neighbor(dist, st).tour
            IN  /\ Len(tour) = Shape0(dist) + 1
                /\ tour[1] = st /\ tour[Len(tour)] = st
                /\ {tour[k] : k \in 1..Shape0(dist)} = Starts(dist)

\* C16: every city nearest_neighbor appends is unvisited, at minimal distance
\* from the current city among the unvisited cities, and the lowest-indexed
\* city at that distance.  (nearest_neighbor reads nothing but the matrix,
\* which no step changes: the property is evaluated once per input.)
C16_NNGreedy ==
    (pc = "entry" /\ Legal(dist)) =>
        \A st \in Starts(dist) :
            LET tour == nearest_neighbor(dist, st).tour
            IN  \A k \in 2..(Len(tour) - 1) :
                    LET seen == {tour[i] : i \in 1..(k - 1)}
                        free == Starts(dist) \ seen
                    IN  /\ tour[k] \in free
                        /\ \A j \in free :
                              Entry(dist, tour[k - 1], tour[k]) <= Entry(dist, tour[k - 1], j)
                        /\ \A j \in free :
                              Entry(dist, tour[k - 1], j) = Entry(dist, tour[k - 1], tour[k])
                                  => tour[k] <= j

C16_Witness ==
    /\ Shape0(dist) = 3 /\ Legal(dist) /\ pc = "entry"
    /\ dist[1][2] = dist[1][3]
    /\ nearest_neighbor(dist, 0).tour = <<0, 1, 2, 0>>

\* C17: the cost nearest_neighbor returns is the sum of the edge costs between
\* consecutive positions of the tour it returns, closing edge included
\* (evaluated once per input, as for C16).
C17_NNCost ==
    pc = "entry" =>
        \A st \in Starts(dist) :
            nearest_neighbor(dist, st).cost = PathCost(dist, nearest_neighbor(dist, st).tour)

C17_Witness ==
    /\ Shape0(dist) = 3 /\ pc = "entry"
    /\ nearest_neighbor(dist, 1).tour = <<1, 2, 0, 1>>
    /\ nearest_neighbor(dist, 1).cost = Float(dist[2][3] + dist[3][1] + dist[1][2])
    /\ dist[1][2] > 0

\* C18: a returned run and every other run on the same matrix with the same
\* time limit, whatever the clock reads in it, return the same best_cost and
\* best_tour.
C18_Deterministic ==
    pc = "done" =>
        \A k \in OtherRunStops(dist, time_limit) :
            RefResult(dist, k) = <<best_cost, best_tour>>

\* C18 as amended: what a run returns is determined by the matrix and the
\* number of iterations it made before it stopped.
C18_DeterministicPerStop ==
    pc = "done" => <<best_cost, best_tour>> = RefResult(dist, nodes_expanded)

C18_Witness ==
    /\ pc = "done" /\ heap # {} /\ time_limit = 0 /\ best_tour # None
    /\ RefResult(dist, 0) # <<best_cost, best_tour>>

\* C19: the time limit is tested once per iteration, before the pop: a node
\* is popped only after a reading within the limit, and the step that
\* returns pops and pushes nothing and leaves the incumbent unchanged; after
\* the return nothing changes.
C19_TimeCheck ==
    [][/\ nodes_expanded' # nodes_expanded =>
             /\ nodes_expanded' = nodes_expanded + 1
             /\ now' - start_time <= time_limit
       /\ pc' = "done" =>
             /\ heap' = heap /\ nodes_expanded' = nodes_expanded
             /\ best_cost' = best_cost /\ best_tour' = best_tour
       /\ (pc = "loop" /\ heap # {} /\ now' - start_time > time_limit) => pc' = "done"]_vars

C19_Witness ==
    /\ pc = "done" /\ heap # {} /\ nodes_expanded >= 2
    /\ now - start_time > time_limit /\ time_limit = 0

\* C20: the node a pop yields is the least of the frontier under the key
\* (bound, accumulated cost, visited-city sequence in lexicographic order).
C20_PopLeast ==
    [][nodes_expanded' # nodes_expanded =>
          /\ popped' \in heap
          /\ heap' \cap heap = heap \ {popped'}
          /\ \A y \in heap \ {popped'} : KeyLess(popped', y)]_vars

C20_Witness ==
    /\ pc = "loop" /\ nodes_expanded >= 2
    /\ \E y \in heap : y.bound = popped.bound /\ y.cost = popped.cost

\* ---- the three kinds of iteration, read off the popped node ---------------
\* the step pops a node
Pops == nodes_expanded' # nodes_expanded

\* the cities of 0..n-1 that are not on the path
Complement(d, path) == (0..(Shape0(d) - 1)) \ Range(path)

NoDuplicates(s) == \A i, j \in 1..Len(s) : s[i] = s[j] => i = j

\* C21: a step that pops a node whose bound is >= best_cost removes that node
\* from the frontier and nothing else: no child is constructed or pushed,
\* best_cost and best_tour keep their values, nodes_expanded grows by one and
\* max_depth becomes the larger of itself and the node's path length.
C21_PruneFrame ==
    [][(Pops /\ popped'.bound >= best_cost) =>
          /\ heap' = heap \ {popped'}
          /\ generated' = {}
          /\ best_cost' = best_cost /\ best_tour' = best_tour
          /\ nodes_expanded' = nodes_expanded + 1
          /\ max_depth' >= max_depth /\ max_depth' >= Len(popped'.path)
          /\ max_depth' \in {max_depth, Len(popped'.path)}
          /\ pc' = pc /\ dist' = dist /\ time_limit' = time_limit]_vars

C21_Witness ==
    /\ pc = "loop" /\ generated = {} /\ popped.unvisited # <<>>
    /\ best_tour # None /\ popped.bound >= best_cost /\ nodes_expanded >= 4

\* C22: a step that branches constructs exactly one child per unvisited city
\* of the popped node (the path extended by that city) and pushes a child only
\* if its bound is strictly less than best_cost: a child whose bound is equal
\* to or greater than best_cost is not in the frontier afterwards.
C22_PushBelowBest ==
    [][(Pops /\ popped'.bound < best_cost /\ popped'.unvisited # <<>> /\ pc' = "loop") =>
          /\ Cardinality(generated') = Len(popped'.unvisited)
          /\ {c.path : c \in generated'} =
                {Append(popped'.path, v) : v \in Range(popped'.unvisited)}
          /\ heap' \ heap \subseteq generated'
          /\ heap \ heap' = {popped'}
          /\ \A c \in generated' :
                /\ c \in heap' => c.bound < best_cost
                /\ c.bound >= best_cost => c \notin heap']_vars

C22_Witness ==
    /\ pc = "loop" /\ nodes_expanded = 1 /\ Cardinality(generated) = 2
    /\ \E c \in generated : c.bound >= best_cost /\ c \notin heap
    /\ \E c \in generated : c.bound < best_cost /\ c \in heap

\* C23: a step that pops an unpruned node with no unvisited city pushes
\* nothing; if accumulated cost + edge back to the start is strictly less
\* than best_cost, best_cost becomes that total and best_tour the path
\* followed by the start, otherwise both keep their values.  In every step
\* best_cost does not increase.
C23_CloseTour ==
    [][/\ (Pops /\ popped'.bound < best_cost /\ popped'.unvisited = <<>>) =>
             LET total == Plus(popped'.cost, Entry(dist, Last(popped'.path), 0))
             IN  /\ heap' = heap \ {popped'}
                 /\ generated' = {}
                 /\ IF total < best_cost
                    THEN best_cost' = total /\ best_tour' = popped'.path \o <<0>>
                    ELSE best_cost' = best_cost /\ best_tour' = best_tour
       /\ best_cost' <= best_cost]_vars

C23_Witness ==
    /\ pc = "loop" /\ popped.unvisited = <<>> /\ heap # {}
    /\ best_tour = popped.path \o <<0>> /\ best_cost < Inf
    /\ dist[Last(popped.path) + 1][1] # dist[1][Last(popped.path) + 1]

\* C24: every node of the frontier has a path of length >= 1 that starts
\* with city 0 and repeats no city, an unvisited tuple that holds exactly the
\* cities of 0..n-1 that are not on the path, and an accumulated cost equal to
\* the sum of the edge costs between consecutive cities of the path.
C24_NodeShape ==
    \A node \in heap :
        /\ Len(node.path) >= 1
        /\ node.path[1] = 0
        /\ NoDuplicates(node.path)
        /\ Range(node.unvisited) = Complement(dist, node.path)
        /\ NoDuplicates(node.unvisited)
        /\ node.cost = PathCost(dist, node.path)

C24_Witness ==
    \E node \in heap :
        /\ Len(node.path) = 3 /\ Len(node.unvisited) = 1 /\ node.path[2] = 3
        /\ node.cost > 0

\* the run's time limit is one the clock never exceeds
NeverTimedOut == time_limit >= MaxClock

\* C25: on a legal matrix with n >= 3, a run whose time limit is never
\* reached makes at most as many pops as there are duplicate-free paths
\* starting at city 0, and eventually returns with an empty frontier.
C25_Terminates ==
    /\ []((Legal(dist) /\ Shape0(dist) >= 3 /\ NeverTimedOut) =>
             nodes_expanded <= NumPaths(Shape0(dist) - 1))
    /\ (Legal(dist) /\ Shape0(dist) >= 3 /\ NeverTimedOut /\ pc = "entry")
           ~> (pc = "done" /\ heap = {})

C25_Witness ==
    /\ pc = "done" /\ heap = {} /\ Legal(dist) /\ Shape0(dist) = 3 /\ NeverTimedOut
    /\ nodes_expanded = NumPaths(2) /\ best_tour # None

\* ---- the bound, restated ------------------------------------------------
RECURSIVE SetSum(_, _)
SetSum(f, S) ==
    IF S = {} THEN 0
    ELSE LET x == CHOOSE y \in S : TRUE IN Plus(f[x], SetSum(f, S \ {x}))

\* the sum of the two smallest edge costs from city u to any other city
TwoSmallest(d, u) ==
    LET others == (0..(Shape0(d) - 1)) \ {u}
    IN  Min({Plus(Entry(d, u, j), Entry(d, u, k)) :
               <<j, k>> \in {p \in others \X others : p[1] # p[2]}})

ConnectionTerm(d, path, U) ==
    IF U # {} THEN Min({Entry(d, Last(path), j) : j \in U})
    ELSE Entry(d, Last(path), 0)

RemainingTerm(d, U) == SetSum([u \in U |-> TwoSmallest(d, u)], U)

\* C26: with n >= 3 the bound of every constructed node is its accumulated
\* cost + the connection term (the least edge from the last city to an
\* unvisited city, or the closing edge when none remains) + half the sum,
\* over the unvisited cities, of the two smallest edges from that city to any
\* other city.
C26_BoundFormula ==
    Shape0(dist) >= 3 =>
        \A node \in generated :
            node.bound =
                Plus(Plus(node.cost,
                          ConnectionTerm(dist, node.path, Complement(dist, node.path))),
                     Half(RemainingTerm(dist, Complement(dist, node.path))))

C26_Witness ==
    \E node \in generated :
        /\ Len(node.path) = 2 /\ Len(node.unvisited) = 1 /\ node.cost > 0
        /\ node.bound < Inf /\ node.bound % 2 = 1

\* C27: once a tour has been accepted, best_cost and best_tour keep their
\* values, nothing is pushed onto the frontier, and every node popped has a
\* bound >= best_cost and is discarded: the incumbent is assigned at most once.
C27_AssignedOnce ==
    [][best_tour # None =>
          /\ best_cost' = best_cost /\ best_tour' = best_tour
          /\ heap' \subseteq heap
          /\ Pops => (popped'.bound >= best_cost /\ generated' = {})]_vars

C27_Witness ==
    /\ pc = "done" /\ heap = {} /\ best_tour # None
    /\ popped.unvisited = <<>> /\ popped.path \o <<0>> # best_tour
    /\ popped.bound > best_cost

\* the result of the run that goes on until the frontier is empty
FullResult(d) == RefResult(d, NumPaths(Shape0(d) - 1))

\* C28: whatever the time limit and the clock, a run that returns has either
\* no tour (best_cost = +inf) or exactly the best_cost and best_tour of the
\* run to frontier exhaustion on the same matrix.
C28_AnytimeEqualsFull ==
    pc = "done" =>
        IF best_tour = None THEN best_cost = Inf
        ELSE <<best_cost, best_tour>> = FullResult(dist)

C28_Witness ==
    /\ pc = "done" /\ heap # {} /\ time_limit = 0 /\ best_tour # None
    /\ <<best_cost, best_tour>> = FullResult(dist)
    /\ \E node \in heap : node.unvisited # <<>>

Reverse(t) == [k \in 1..Len(t) |-> t[Len(t) + 1 - k]]

\* C29: whenever best_tour is present, best_cost is the sum of the edge costs
\* between consecutive positions of best_tour, closing edge included.
C29_CostOfTour ==
    best_tour # None => best_cost = PathCost(dist, best_tour)

C29_Witness ==
    /\ best_tour # None /\ pc = "loop" /\ Len(best_tour) = 4
    /\ best_cost # PathCost(dist, Reverse(best_tour))
    /\ Entry(dist, best_tour[3], 0) > 0

Symmetric(d) == \A i, j \in 1..Len(d) : d[i][j] = d[j][i]

\* C30: on a symmetric matrix with zero diagonal and finite non-negative
\* entries, n >= 3, a run that ends with an empty frontier returns the cost of
\* the cheapest closed tour.
C30_SymmetricOptimal ==
    (Exhausted /\ Legal(dist) /\ Symmetric(dist) /\ ~HasInf(dist) /\ Shape0(dist) >= 3) =>
        best_cost = OptCost(dist)

====
